---- MODULE Spec2Model ----
(***************************************************************************)
(* Model of src/src/stream.rs: the per-stream receive reorder buffer       *)
(* (RecvBuf, a BinaryHeap of RangeBuf ordered by offset), the send chunk   *)
(* buffer (SendBuf, a VecDeque of RangeBuf) and the Stream that owns one   *)
(* of each.                                                                *)
(*                                                                         *)
(* Payload bytes are never inspected by the code.  Every byte is therefore *)
(* labelled by its absolute position (ByteAt), so that loss, duplication   *)
(* and reordering are visible in the byte sequences the model records.     *)
(*                                                                         *)
(* std::collections::BinaryHeap does not say which of several maximal      *)
(* elements peek()/pop() yield.  RangeBuf compares by offset only, so      *)
(* among pending chunks with the same (lowest) offset the model lets any   *)
(* one be at the root (Peek).                                              *)
(*                                                                         *)
(* A usize subtraction that goes below zero panics when the build has      *)
(* overflow checks (debug profile) and wraps otherwise (release profile):  *)
(* both outcomes are possible results of the call.  A panic ends the run:  *)
(* no operation is enabled once panicked is TRUE.                          *)
(***************************************************************************)
EXTENDS Bags, FiniteSets, Integers, Sequences, TLC

\* ---- bounds of the model ----
MaxOff == 2        \* largest offset of an inbound chunk
MaxLen == 2        \* largest length of an inbound chunk or of one write
MaxPending == 3    \* most chunks held by RecvBuf.data
MaxQueued == 2     \* most chunks held by SendBuf.data
MaxWritten == 4    \* most bytes the application writes in total
MaxBudget == 3     \* largest max_len passed to pop_send
UsizeBits == 8     \* modelled width of usize
MaxStreams == 3    \* most streams in the table

Usize == 2 ^ UsizeBits

VARIABLES
    recv,             \* Stream.recv : RecvBuf  [data (bag), off, len]
    send,             \* Stream.send : SendBuf  [data (sequence), off, len]
    panicked,         \* a call panicked
    last,             \* the last call: its name, argument and return value
    delivered,        \* history: bytes returned by pop_recv so far, in order
    written,          \* history: bytes passed to push_send so far, in order
    sent,             \* history: bytes returned by pop_send so far, in order
    hi,               \* history: highest off + len of any chunk passed to push_recv
    streams,          \* the table of streams: stream id -> Stream
    iter,             \* StreamIterator.streams: the ids the map iterator has yet to visit, in its order
    yielded,          \* history: the ids StreamIterator::next returned, in order
    exhausted         \* StreamIterator::next has returned None

\* the variables of the one stream that the Stream operations act on
svars == <<recv, send, panicked, last, delivered, written, sent, hi>>

\* the variables of the stream table and its iterator
tvars == <<streams, iter, yielded, exhausted>>

vars == <<recv, send, panicked, last, delivered, written, sent, hi,
          streams, iter, yielded, exhausted>>

\* ---- helpers ----
Max(a, b) == IF a >= b THEN a ELSE b

Min(a, b) == IF a <= b THEN a ELSE b

\* usize subtraction as the release build computes it
WrappingSub(a, b) == (a - b + Usize) % Usize

\* the byte at absolute position i of a byte space
ByteAt(i) == (7 * i + 3) % 256

\* the bytes at positions [off, off + n)
Range(off, n) == [i \in 1..n |-> ByteAt(off + i - 1)]

\* ---- RangeBuf ----
RangeBuf_from(buf, off) == [data |-> buf, off |-> off]

RangeBuf_default == [data |-> <<>>, off |-> 0]

RangeBuf_len(self) == Len(self.data)

\* impl Ord for RangeBuf: a is at least as great as b (reversed offsets)
RangeBuf_ge(a, b) == a.off <= b.off

\* ---- RecvBuf ----
RecvBuf_default == [data |-> EmptyBag, off |-> 0, len |-> 0]

\* the chunks BinaryHeap::peek may show: the greatest ones
Peek(data) ==
    {b \in BagToSet(data) : \A c \in BagToSet(data) : RangeBuf_ge(b, c)}

\* variant: len is set to the chunk's end without cmp::max
RecvBuf_push_nomax(self, buf) ==
    [self EXCEPT !.len = buf.off + RangeBuf_len(buf),
                 !.data = self.data (+) SetToBag({buf})]

\* variant: len takes the chunk's length and ignores its offset
RecvBuf_push_lenonly(self, buf) ==
    [self EXCEPT !.len = Max(self.len, RangeBuf_len(buf)),
                 !.data = self.data (+) SetToBag({buf})]

RecvBuf_push(self, buf) ==
    [self EXCEPT !.len = Max(self.len, buf.off + RangeBuf_len(buf)),
                 !.data = self.data (+) SetToBag({buf})]

\* variant: a chunk below the cursor counts as ready
RecvBuf_ready_le(self) ==
    /\ Peek(self.data) # {}
    /\ \A buf \in Peek(self.data) : buf.off <= self.off

\* variant: the root chunk's offset is not compared with the cursor
RecvBuf_ready_any(self) == Peek(self.data) # {}

RecvBuf_ready(self) ==
    /\ Peek(self.data) # {}
    /\ \A buf \in Peek(self.data) : buf.off = self.off

RecvBuf_len(self) == self.len

\* variant: `if` in place of `while`, one chunk per call
RecvBuf_pop_loop_once(self, out, uf) ==
    IF ~RecvBuf_ready(self)
    THEN {[self |-> self, out |-> out, panic |-> FALSE, underflow |-> uf]}
    ELSE {[self |-> [self EXCEPT !.data = self.data (-) SetToBag({buf}),
                                 !.off = self.off + RangeBuf_len(buf),
                                 !.len = WrappingSub(self.len, RangeBuf_len(buf))],
           out |-> [out EXCEPT !.data = out.data \o buf.data],
           panic |-> FALSE, underflow |-> uf] : buf \in Peek(self.data)}

\* the loop of RecvBuf::pop; the set of its possible results
RECURSIVE RecvBuf_pop_loop(_, _, _)
RecvBuf_pop_loop(self, out, uf) ==
    IF ~RecvBuf_ready(self)
    THEN {[self |-> self, out |-> out, panic |-> FALSE, underflow |-> uf]}
    ELSE UNION {
        LET n == RangeBuf_len(buf)
            popped == [self EXCEPT !.data = self.data (-) SetToBag({buf}),
                                   !.off = self.off + n]
        IN  (IF self.len < n
             THEN {[self |-> popped, out |-> out, panic |-> TRUE,
                    underflow |-> TRUE]}
             ELSE {})
            \cup
            RecvBuf_pop_loop(
                [popped EXCEPT !.len = WrappingSub(self.len, n)],
                [out EXCEPT !.data = out.data \o buf.data],
                uf \/ self.len < n)
        : buf \in Peek(self.data)}

RecvBuf_pop(self) == RecvBuf_pop_loop(self, RangeBuf_default, FALSE)

\* ---- SendBuf ----
SendBuf_default == [data |-> <<>>, off |-> 0, len |-> 0]

SendBuf_len(self) == self.len

SendBuf_ready(self) == SendBuf_len(self) > 0

\* variant: push_front in place of push_back
SendBuf_push_front(self, data) ==
    LET buf == RangeBuf_from(data, self.off)
    IN  [self EXCEPT !.len = self.len + RangeBuf_len(buf),
                     !.data = <<buf>> \o self.data]

\* variant: len is not advanced
SendBuf_push_nolen(self, data) ==
    [self EXCEPT !.data = Append(self.data, RangeBuf_from(data, self.off))]

\* the state after SendBuf::push(data)
SendBuf_push(self, data) ==
    LET buf == RangeBuf_from(data, self.off)
    IN  [self EXCEPT !.len = self.len + RangeBuf_len(buf),
                     !.data = Append(self.data, buf)]

\* the value SendBuf::push(data) returns
SendBuf_push_ret(self, data) == self.off

\* variant: the budget test `out_len > 0` is missing from the loop condition
SendBuf_pop_loop_nobudget(self, out, out_len, uf) ==
    IF ~SendBuf_ready(self) \/ self.data = <<>>
    THEN {[self |-> self, out |-> out, panic |-> FALSE, underflow |-> uf]}
    ELSE {[self |-> [self EXCEPT !.data = Tail(self.data),
                                 !.off = self.off + RangeBuf_len(Head(self.data)),
                                 !.len = WrappingSub(self.len,
                                             RangeBuf_len(Head(self.data)))],
           out |-> [out EXCEPT !.data = out.data \o Head(self.data).data],
           panic |-> FALSE, underflow |-> uf]}

\* the loop of SendBuf::pop; the set of its possible results
RECURSIVE SendBuf_pop_loop(_, _, _, _)
SendBuf_pop_loop(self, out, out_len, uf) ==
    IF ~(out_len > 0 /\ SendBuf_ready(self)) \/ self.data = <<>>
    THEN {[self |-> self, out |-> out, panic |-> FALSE, underflow |-> uf]}
    ELSE LET buf == Head(self.data)
             n == RangeBuf_len(buf)
             popped == [self EXCEPT !.data = Tail(self.data),
                                    !.off = self.off + n]
             counted == [popped EXCEPT !.len = WrappingSub(self.len, n)]
         IN  (IF self.len < n
              THEN {[self |-> popped, out |-> out, panic |-> TRUE,
                     underflow |-> TRUE]}
              ELSE {})
             \cup
             (IF out_len < n
              THEN {[self |-> counted, out |-> out, panic |-> TRUE,
                     underflow |-> TRUE]}
              ELSE {})
             \cup
             SendBuf_pop_loop(
                 counted,
                 [out EXCEPT !.data = out.data \o buf.data],
                 WrappingSub(out_len, n),
                 uf \/ self.len < n \/ out_len < n)

SendBuf_pop(self, max_len) ==
    SendBuf_pop_loop(self, RangeBuf_default, max_len, FALSE)

\* ---- Stream ----
Stream_can_read == RecvBuf_ready(recv)

Stream_can_write == SendBuf_ready(send)

\* the record of a call: name, argument, returned RangeBuf, returned offset
Call(op, max_len, out, offset, underflow) ==
    [op |-> op, max_len |-> max_len, out |-> out, offset |-> offset,
     underflow |-> underflow]

Init ==
    /\ recv = RecvBuf_default
    /\ send = SendBuf_default
    /\ panicked = FALSE
    /\ last = Call("new", 0, RangeBuf_default, 0, FALSE)
    /\ delivered = <<>>
    /\ written = <<>>
    /\ sent = <<>>
    /\ hi = 0
    /\ streams = << >>
    /\ iter = <<>>
    /\ yielded = <<>>
    /\ exhausted = FALSE

\* Stream::push_recv(buf): a chunk of n stream bytes at offset off
Stream_push_recv ==
    /\ ~panicked
    /\ BagCardinality(recv.data) < MaxPending
    /\ \E off \in 0..MaxOff, n \in 0..MaxLen :
        LET buf == RangeBuf_from(Range(off, n), off)
        IN  /\ recv' = RecvBuf_push(recv, buf)
            /\ hi' = Max(hi, off + n)
            /\ last' = Call("push_recv", 0, RangeBuf_default, 0, FALSE)
    /\ UNCHANGED <<send, panicked, delivered, written, sent>>
    /\ UNCHANGED tvars

\* Stream::pop_recv()
Stream_pop_recv ==
    /\ ~panicked
    /\ \E r \in RecvBuf_pop(recv) :
        /\ recv' = r.self
        /\ panicked' = r.panic
        /\ last' = Call("pop_recv", 0, r.out, 0, r.underflow)
        /\ delivered' = IF r.panic THEN delivered
                        ELSE delivered \o r.out.data
    /\ UNCHANGED <<send, written, sent, hi>>
    /\ UNCHANGED tvars

\* Stream::push_send(data): the application writes its next n bytes
Stream_push_send ==
    /\ ~panicked
    /\ Len(send.data) < MaxQueued
    /\ \E n \in 0..MaxLen :
        /\ Len(written) + n <= MaxWritten
        /\ LET data == Range(Len(written), n)
           IN  /\ send' = SendBuf_push(send, data)
               /\ last' = Call("push_send", 0, RangeBuf_default,
                               SendBuf_push_ret(send, data), FALSE)
               /\ written' = written \o data
    /\ UNCHANGED <<recv, panicked, delivered, sent, hi>>
    /\ UNCHANGED tvars

\* variant: pop_send drains self.recv in place of self.send
Stream_pop_send_recv ==
    /\ ~panicked
    /\ \E r \in RecvBuf_pop(recv) :
        /\ recv' = r.self
        /\ panicked' = r.panic
        /\ last' = Call("pop_send", 0, r.out, 0, r.underflow)
        /\ sent' = sent \o r.out.data
    /\ UNCHANGED <<send, delivered, written, hi>>
    /\ UNCHANGED tvars

\* Stream::pop_send(max_len)
Stream_pop_send ==
    /\ ~panicked
    /\ \E max_len \in 0..MaxBudget :
        \E r \in SendBuf_pop(send, max_len) :
            /\ send' = r.self
            /\ panicked' = r.panic
            /\ last' = Call("pop_send", max_len, r.out, 0, r.underflow)
            /\ sent' = IF r.panic THEN sent ELSE sent \o r.out.data
    /\ UNCHANGED <<recv, delivered, written, hi>>
    /\ UNCHANGED tvars

Next ==
    \/ Stream_push_recv
    \/ Stream_pop_recv
    \/ Stream_push_send
    \/ Stream_pop_send

Spec == Init /\ [][Next]_vars

NextRecv == Stream_push_recv \/ Stream_pop_recv

SpecRecv == Init /\ [][NextRecv]_vars

NextSend == Stream_push_send \/ Stream_pop_send

SpecSend == Init /\ [][NextSend]_vars

\* runs that use one buffer of the stream and leave the other as constructed
NextOneWay ==
    \/ send = SendBuf_default /\ NextRecv
    \/ recv = RecvBuf_default /\ NextSend

SpecOneWay == Init /\ [][NextOneWay]_vars

\* the stream holds at most MaxQueued chunks in its two buffers together,
\* and the highest inbound end offset plus the bytes written stay within
\* MaxWritten
Light ==
    /\ BagCardinality(recv.data) + Len(send.data) <= MaxQueued
    /\ hi + Len(written) <= MaxWritten

\* runs that use both buffers of the stream, with pushes kept within Light
NextTwoWay ==
    \/ Stream_push_recv /\ Light'
    \/ Stream_pop_recv
    \/ Stream_push_send /\ Light'
    \/ Stream_pop_send

SpecTwoWay == Init /\ [][NextTwoWay]_vars

\* ---- the table of streams and StreamIterator ----
Stream_new == [recv |-> RecvBuf_default, send |-> SendBuf_default]

\* Stream::can_read of a stream of the table
can_read(self) == RecvBuf_ready(self.recv)

\* the stream ids a table may hold
StreamIds == {4 * i : i \in 0..MaxStreams - 1}

\* streams as the table holds them: new; after one push_recv of a chunk of
\* 0 or 1 bytes at offset 0 (readable) or 1 (a gap); after one push_send
TableStreams ==
    {Stream_new}
    \cup {[Stream_new EXCEPT !.recv =
              RecvBuf_push(RecvBuf_default, RangeBuf_from(Range(off, n), off))] :
          off \in 0..1, n \in 0..1}
    \cup {[Stream_new EXCEPT !.send = SendBuf_push(SendBuf_default, Range(0, 1))]}

\* the orders in which a map iterator may visit the keys
Orders(keys) ==
    {o \in [1..Cardinality(keys) -> keys] :
        \A i, j \in 1..Cardinality(keys) : i # j => o[i] # o[j]}

\* variant: `return None` in place of `continue` on a stream that is not readable
StreamIterator_next_loop_stop(self, table) ==
    IF self = <<>> \/ ~can_read(table[Head(self)])
    THEN [item |-> <<>>, streams |-> IF self = <<>> THEN <<>> ELSE Tail(self)]
    ELSE [item |-> <<Head(self)>>, streams |-> Tail(self)]

\* the loop of StreamIterator::next: the Option returned (<<k>> for Some(k),
\* <<>> for None) and what is left of the map iterator
RECURSIVE StreamIterator_next_loop(_, _)
StreamIterator_next_loop(self, table) ==
    IF self = <<>>
    THEN [item |-> <<>>, streams |-> <<>>]
    ELSE IF ~can_read(table[Head(self)])
    THEN StreamIterator_next_loop(Tail(self), table)
    ELSE [item |-> <<Head(self)>>, streams |-> Tail(self)]

\* a table of streams and StreamIterator::new over its iterator
InitIter ==
    /\ recv = RecvBuf_default
    /\ send = SendBuf_default
    /\ panicked = FALSE
    /\ last = Call("new", 0, RangeBuf_default, 0, FALSE)
    /\ delivered = <<>>
    /\ written = <<>>
    /\ sent = <<>>
    /\ hi = 0
    /\ streams \in UNION {[keys -> TableStreams] : keys \in SUBSET StreamIds}
    /\ iter \in Orders(DOMAIN streams)
    /\ yielded = <<>>
    /\ exhausted = FALSE

\* StreamIterator::next()
StreamIterator_next ==
    LET r == StreamIterator_next_loop(iter, streams)
    IN  /\ iter' = r.streams
        /\ yielded' = yielded \o r.item
        /\ exhausted' = (r.item = <<>>)
        /\ UNCHANGED streams
        /\ UNCHANGED svars

NextIter == StreamIterator_next

SpecIter == InitIter /\ [][NextIter]_vars

\* ======================= properties =======================

\* the step is a call of pop_recv / pop_send / push_send
IsPopRecv == last'.op = "pop_recv"

IsPopSend == last'.op = "pop_send"

IsPushSend == last'.op = "push_send"

\* the chunks pending in the receive buffer
Pending == BagToSet(recv.data)

\* position p is covered by a pending chunk
Covered(p) == \E b \in Pending : b.off <= p /\ p < b.off + Len(b.data)

\* length of the maximal gap-free span starting at next_offset
CoverRun ==
    CHOOSE n \in 0..hi + 1 :
        /\ \A p \in recv.off..(recv.off + n - 1) : Covered(p)
        /\ ~Covered(recv.off + n)

\* two chunks share an offset or their ranges overlap
Conflict(a, b) ==
    \/ a.off = b.off
    \/ a.off < b.off + Len(b.data) /\ b.off < a.off + Len(a.data)

\* the pending chunks are pairwise non-overlapping with distinct offsets;
\* this follows for the pending chunks whenever it holds of all chunks
\* pushed so far, which also leaves no pending chunk below next_offset
DisjointPending ==
    /\ \A b \in Pending : CopiesIn(b, recv.data) = 1 /\ b.off >= recv.off
    /\ \A a, b \in Pending : a # b => ~Conflict(a, b)

\* s is a prefix of t
IsPrefix(s, t) == Len(s) <= Len(t) /\ s = SubSeq(t, 1, Len(s))

RECURSIVE Flatten(_)
Flatten(q) == IF q = <<>> THEN <<>> ELSE Head(q).data \o Flatten(Tail(q))

\* C1: with chunks that carry the true stream bytes of their range, the
\* bytes returned by pop_recv so far, concatenated, are exactly the stream
\* bytes at positions [0, next_offset): no gap, no duplicate, in order.
C1_NoGapsNoDuplication == delivered = Range(0, recv.off)

\* a pop delivered bytes while a chunk below next_offset stays pending
C1_Witness ==
    /\ last.op = "pop_recv"
    /\ Len(last.out.data) > 0
    /\ \E b \in Pending : b.off < recv.off

\* C2: when the pending chunks are pairwise non-overlapping with distinct
\* offsets, one pop_recv returns the whole maximal gap-free run starting at
\* next_offset, in offset order, leaves nothing ready, and a pop_recv right
\* after a pop_recv returns an empty result.
C2_Coalescing ==
    [][IsPopRecv /\ DisjointPending =>
          /\ last'.out.data = Range(recv.off, CoverRun)
          /\ ~RecvBuf_ready(recv')
          /\ (last.op = "pop_recv" => last'.out.data = <<>>)]_vars

\* the first pop returned more than one chunk's worth of bytes
C2_Witness ==
    /\ last.op = "pop_recv"
    /\ Len(last.out.data) > MaxLen
    /\ delivered = last.out.data

\* C3: for pushes in any order, duplicates and overlaps included, pop_recv
\* returns exactly the bytes of [next_offset, next_offset + run), run being
\* the maximal gap-free span from next_offset covered by pending chunks.
C3_AnyPushes ==
    [][IsPopRecv => last'.out.data = Range(recv.off, CoverRun)]_vars

\* C4: pop_send(max_len) returns exactly min(max_len, unsent_len) bytes and
\* keeps the remainder of a split chunk pending.
C4_Budget ==
    [][IsPopSend =>
          /\ ~panicked'
          /\ Len(last'.out.data) = Min(last'.max_len, send.len)
          /\ send'.len = send.len - Min(last'.max_len, send.len)]_vars

\* C5: in pop_send the subtraction out_len -= chunk length never goes
\* below zero and the call never panics.
C5_NoUnderflow == last.op = "pop_send" => ~last.underflow /\ ~panicked

\* C6: can_read() is true iff an immediate pop_recv() returns a non-empty
\* result.
C6_Readability ==
    [][IsPopRecv => (Stream_can_read <=> Len(last'.out.data) > 0)]_vars

\* C7: the bytes returned by pop_send, in call order, are a prefix of the
\* bytes passed to push_send, in call order; a pop_send whose budget is at
\* least unsent_len returns all pending bytes in push order.
C7_SendOrder ==
    [][/\ IsPrefix(sent', written')
       /\ (IsPopSend /\ last'.max_len >= send.len =>
              /\ ~panicked'
              /\ last'.out.data = Flatten(send.data)
              /\ sent' = sent \o Flatten(send.data))]_vars

\* one pop_send returned the bytes of more than one pushed chunk and
\* emptied the buffer
C7_Witness ==
    /\ last.op = "pop_send"
    /\ ~panicked
    /\ Len(last.out.data) > MaxLen
    /\ sent = written

\* C8: after calls that returned, len() is the number of bytes pushed minus
\* the number of bytes returned by pop, and it is the sum of the lengths of
\* the pending chunks.
C8_SendAccounting ==
    /\ send.len = Len(Flatten(send.data))
    /\ (~panicked => send.len = Len(written) - Len(sent))

\* a pop_send returned some bytes and left others pending
C8_Witness ==
    /\ last.op = "pop_send"
    /\ ~panicked
    /\ Len(last.out.data) > 0
    /\ send.len > 0

\* C9: the value push_send returns is the number of bytes passed to all
\* earlier pushes, and the cursor advances by the chunk's length.
C9_PushOffset ==
    [][IsPushSend => last'.offset = Len(written)]_vars

\* C10: pop_recv with nothing ready, and pop_send with nothing unsent or a
\* budget of zero, return an empty result and change nothing.
C10_NothingReady ==
    [][/\ (IsPopRecv /\ ~Stream_can_read =>
              last'.out.data = <<>> /\ recv' = recv /\ ~panicked')
       /\ (IsPopSend /\ (send.len = 0 \/ last'.max_len = 0) =>
              last'.out.data = <<>> /\ send' = send /\ ~panicked')]_vars

\* pop_recv returned empty over a gap: two chunks pending at different
\* offsets, both above next_offset
C10_Witness ==
    /\ last.op = "pop_recv"
    /\ last.out.data = <<>>
    /\ Cardinality(Pending) = 2
    /\ \A a, b \in Pending : a # b => a.off # b.off
    /\ \A b \in Pending : b.off > recv.off

\* the step is a call of push_recv
IsPushRecv == last'.op = "push_recv"

\* C11: len() of the receive buffer never decreases on a push, and each pop
\* decreases it by exactly the number of bytes that pop returned.
C11_RecvLenAccounting ==
    [][/\ (IsPushRecv => recv'.len >= recv.len)
       /\ (IsPopRecv => recv'.len = recv.len - Len(last'.out.data))]_vars

\* a pop returned bytes and left len() above zero
C11_Witness ==
    /\ last.op = "pop_recv"
    /\ Len(last.out.data) > 0
    /\ recv.len > 0

\* C13: in every reachable state len() of the receive buffer equals the
\* highest end offset pushed so far minus next_offset.
C13_RecvLenMeaning == recv.len = hi - recv.off

\* C14: the chunks in the send buffer's pending queue are contiguous: each
\* chunk's offset is the previous chunk's offset plus its length.
C14_SendContiguous ==
    \A i \in 2..Len(send.data) :
        send.data[i].off = send.data[i - 1].off + Len(send.data[i - 1].data)

\* a pending chunk lies below next_offset
Stale == \E b \in Pending : b.off < recv.off

\* the cursors that removing all chunks of a bag can lead to from cursor o,
\* when each chunk is removed with its offset equal to the cursor
RECURSIVE ChainEnds(_, _)
ChainEnds(bag, o) ==
    IF bag = EmptyBag THEN {o}
    ELSE UNION {ChainEnds(bag (-) SetToBag({b}), o + Len(b.data)) :
                b \in {c \in BagToSet(bag) : c.off = o}}

\* C15: next_offset never decreases; push leaves it unchanged; pop advances
\* it only by removing chunks whose offset equals next_offset at that
\* moment, by exactly their lengths.
C15_CursorMonotonic ==
    [][/\ recv'.off >= recv.off
       /\ (IsPushRecv => recv'.off = recv.off)
       /\ (IsPopRecv =>
              /\ recv'.data \sqsubseteq recv.data
              /\ recv'.off \in ChainEnds(recv.data (-) recv'.data, recv.off))]_vars

\* a pop advanced the cursor and left a chunk pending
C15_Witness ==
    /\ last.op = "pop_recv"
    /\ recv.off > 0
    /\ Len(last.out.data) > 0
    /\ Pending # {}

\* C16: a popped RangeBuf carries the absolute offset of its first byte:
\* the bytes returned by earlier pops for pop_send, next_offset before the
\* call for pop_recv (stated for non-empty results).
C16_PoppedOffset ==
    [][/\ (IsPopSend /\ Len(last'.out.data) > 0 => last'.out.off = Len(sent))
       /\ (IsPopRecv /\ Len(last'.out.data) > 0 => last'.out.off = recv.off)]_vars

\* C17: once a chunk below next_offset is pending, it stays pending, the
\* stream is never readable again, next_offset stays where it is and every
\* pop returns an empty result.
C17_StaleBlocks ==
    [][Stale =>
          /\ Stale'
          /\ \A b \in Pending :
                 b.off < recv.off =>
                     CopiesIn(b, recv'.data) >= CopiesIn(b, recv.data)
          /\ ~Stream_can_read
          /\ ~Stream_can_read'
          /\ recv'.off = recv.off
          /\ (IsPopRecv => last'.out.data = <<>>)]_vars

\* a pop returned empty although a chunk at next_offset is pending, because
\* a chunk below next_offset is pending too
C17_Witness ==
    /\ Stale
    /\ last.op = "pop_recv"
    /\ last.out.data = <<>>
    /\ \E b \in Pending : b.off = recv.off /\ Len(b.data) > 0

\* C18: the subtraction len -= chunk length in RecvBuf::pop never goes below
\* zero: len >= highest end offset pushed - next_offset >= 0 in every state.
C18_RecvNoUnderflow ==
    /\ ~panicked
    /\ (last.op = "pop_recv" => ~last.underflow)
    /\ recv.len >= hi - recv.off
    /\ hi - recv.off >= 0

\* a pop brought len down to exactly zero
C18_Witness ==
    /\ last.op = "pop_recv"
    /\ Len(last.out.data) > 0
    /\ recv.len = 0

\* C19: push_recv and pop_recv leave the send buffer, hence can_write(),
\* unchanged; push_send and pop_send leave the receive buffer, hence
\* can_read(), unchanged.
C19_DirectionIndependence ==
    [][/\ (IsPushRecv \/ IsPopRecv =>
              send' = send /\ (Stream_can_write' <=> Stream_can_write))
       /\ (IsPushSend \/ IsPopSend =>
              recv' = recv /\ (Stream_can_read' <=> Stream_can_read))]_vars

\* a pop_send returned bytes while the stream was readable
C19_Witness ==
    /\ last.op = "pop_send"
    /\ Len(last.out.data) > 0
    /\ Stream_can_read
    /\ recv.len > 0

\* the ids of the table's readable streams
Readable == {k \in DOMAIN streams : can_read(streams[k])}

\* the ids the iterator has returned
Yielded == {yielded[i] : i \in 1..Len(yielded)}

\* C12: over a table that is not changed meanwhile, StreamIterator returns
\* only ids of readable streams, each at most once; once it has returned
\* them all the next call returns None, and when it returns None it has
\* returned exactly the ids of the readable streams.
C12_ReadableIterator ==
    [][/\ \A i, j \in 1..Len(yielded') : i # j => yielded'[i] # yielded'[j]
       /\ Yielded' \subseteq Readable'
       /\ (Yielded = Readable => exhausted')
       /\ (exhausted' => Yielded' = Readable')]_vars

\* the iterator ran to None over a table with two or more readable streams
\* and a stream that is not readable
C12_Witness ==
    /\ exhausted
    /\ Len(yielded) >= 2
    /\ \E k \in DOMAIN streams : ~can_read(streams[k])

====
